---- MODULE Spec2Model ----
(***************************************************************************)
(* Model of the wildfire threshold-model pipeline:                         *)
(*   wildfire/goes/scan.py                     GoesScan (one band file)    *)
(*   wildfire/models/threshold_model/                                      *)
(*       goes_level_1_wildfires.py             batch search and labelling  *)
(* Three specifications share the operators translated from the code:      *)
(*   SpecScan   one GoesScan construction (parse, cache check, retrieval,  *)
(*              radiometric processing);                                   *)
(*   SpecParse  one call of parse_scan_for_wildfire on one file group;     *)
(*   Spec       a batch through find_wildfires / label_wildfires with the  *)
(*              worker tasks completing in any order.                      *)
(***************************************************************************)
EXTENDS Integers, Sequences, FiniteSets, TLC

VARIABLES
    localFiles,      \* local paths that exist on disk (os.path.exists)
    remoteObjects,   \* [bucket, key] objects present in remote storage
    rasters,         \* raster content of each scan, keyed by scan start time
    scanInput,       \* SpecScan: the filepath given to GoesScan(...)
    scanOut,         \* SpecScan: what the construction did
    parseInput,      \* SpecParse: the file group given to parse_scan_for_wildfire
    parseOut,        \* SpecParse: what the call did
    mode,            \* Spec: entry point, "find" or "label"
    filepaths,       \* Spec: flat list given to find_wildfires
    scan_filepaths,  \* Spec: the groups handed to map_function
    pc,              \* Spec: position of the entry point
    results,         \* Spec: per-task outcome, in submission order
    wildfires,       \* Spec: the sequence returned to the caller
    error,           \* Spec: the exception that left the entry point
    persistDir,      \* Spec: files of persist_directory, name -> content
    opens,           \* Spec: number of open() calls on persist_directory
    outOfOrder       \* Spec (history): a task finished before an earlier one

fsVars == <<localFiles, remoteObjects, rasters>>
scanVars == <<scanInput, scanOut>>
parseVars == <<parseInput, parseOut>>
batchVars == <<mode, filepaths, scan_filepaths, pc, results, wildfires, error,
               persistDir, opens, outOfOrder>>
vars == <<localFiles, remoteObjects, rasters, scanInput, scanOut, parseInput,
          parseOut, mode, filepaths, scan_filepaths, pc, results, wildfires,
          error, persistDir, opens, outOfOrder>>

(***************************************************************************)
(* Bounds and program constants                                            *)
(***************************************************************************)
MaxGroups == 3
MaxPixels == 2
NumBands == 16

LOCAL_DIRECTORY == "downloaded_data"
PersistDirectory == "labeled_wildfires"

(***************************************************************************)
(* Python values                                                           *)
(***************************************************************************)
NoError == "none"

\* A call either returns a value or raises an exception of some class.
Return(v) == [raised |-> NoError, value |-> v]
Raise(kind) == [raised |-> kind, value |-> <<>>]
Raises(outcome) == outcome.raised # NoError

\* Evaluation note: CHOOSE r \in {e(x) : x \in {d}} : TRUE is LET x == d IN e(x)
\* with d evaluated once, which keeps the folds over 16 band files linear.

\* datetime.datetime values
Datetime(s, us) ==
    [year |-> 2019, month |-> 10, day |-> 27, hour |-> 20, minute |-> 48,
     second |-> s, microsecond |-> us]

RECURSIVE Pad(_, _)
\* zero-padded decimal rendering of n in the given width
Pad(n, width) ==
    IF width = 0 THEN "" ELSE Pad(n \div 10, width - 1) \o ToString(n % 10)

\* strftime(DATETIME_FORMAT), DATETIME_FORMAT = "%Y-%m-%dT%H:%M:%S"
DATETIME_FORMAT(dt) ==
    Pad(dt.year, 4) \o "-" \o Pad(dt.month, 2) \o "-" \o Pad(dt.day, 2) \o "T"
    \o Pad(dt.hour, 2) \o ":" \o Pad(dt.minute, 2) \o ":" \o Pad(dt.second, 2)

\* strftime("%Y-%m-%dT%H:%M:%S%f")
ScanTimeFormat(dt) == DATETIME_FORMAT(dt) \o Pad(dt.microsecond, 6)

(***************************************************************************)
(* File names (wildfire.goes.utilities, not in the shown source)           *)
(***************************************************************************)
SatelliteTokens == {"G16", "G17"}
RegionTokens == {"F", "M1", "M2", "C"}
Channels == 1..NumBands

\* A filepath (= s3 key) by the fields its structured name carries.
Filepath(sat, region, channel, started) ==
    [sat |-> sat, region |-> region, channel |-> channel, started |-> started]

SatelliteName(token) == IF token = "G16" THEN "noaa-goes16" ELSE "noaa-goes17"

\* utilities.parse_filepath: (region, channel, satellite, started_at_utc), or a
\* configuration error on an unsupported satellite or region token.
parse_filepath(filepath) ==
    IF filepath.sat \notin SatelliteTokens \/ filepath.region \notin RegionTokens
    THEN Raise("ConfigurationError")
    ELSE Return([region |-> filepath.region,
                 channel |-> filepath.channel,
                 satellite |-> SatelliteName(filepath.sat),
                 started_at_utc |-> filepath.started])

\* utilities.build_local_path
build_local_path(local_directory, filepath, satellite) ==
    [dir |-> local_directory, satellite |-> satellite, key |-> filepath]

\* downloader.download_scan: fetches the object to the local path and returns
\* it; a retrieval error when the remote object is absent.
download_scan(s3_bucket, s3_key, local_directory, remote) ==
    IF [bucket |-> s3_bucket, key |-> s3_key] \in remote
    THEN Return(build_local_path(local_directory, s3_key, s3_bucket))
    ELSE Raise("RetrievalError")

(***************************************************************************)
(* wildfire/goes/scan.py: GoesScan                                         *)
(***************************************************************************)
Absent == [populated |-> FALSE, expr |-> ""]
Populated(e) == [populated |-> TRUE, expr |-> e]

\* xr.open_dataset: the raw variables of the file, no derived product yet.
open_dataset(path) ==
    [path |-> path, reflectance_factor |-> Absent,
     brightness_temperature |-> Absent]

\* GoesScan._calculate_reflectance_factor: ds.Rad * ds.kappa0
calculate_reflectance_factor(dataset) ==
    [dataset EXCEPT !.reflectance_factor = Populated("Rad*kappa0")]

\* GoesScan._calculate_brightness_temperature
calculate_brightness_temperature(dataset) ==
    [dataset EXCEPT !.brightness_temperature =
        Populated("(planck_fk2/ln(planck_fk1/Rad+1)-planck_bc1)/planck_bc2")]

\* GoesScan._process: both transforms, whatever the channel
GoesScan_process(dataset) ==
    calculate_brightness_temperature(calculate_reflectance_factor(dataset))

\* GoesScan._check_local: the dataset when the local path exists, else None
GoesScan_check_local(self, local) ==
    LET local_filepath == build_local_path(self.local_directory, self.filepath,
                                           self.satellite)
    IN  IF local_filepath \in local
        THEN [found |-> TRUE, dataset |-> open_dataset(local_filepath)]
        ELSE [found |-> FALSE, dataset |-> open_dataset(local_filepath)]

\* always downloads, never looks at the local directory
GoesScan_get_NoCacheCheck(self, local, remote) ==
    LET fetched == download_scan(self.satellite, self.filepath,
                                 self.local_directory, remote)
    IN  IF Raises(fetched)
        THEN [outcome |-> Raise(fetched.raised), local |-> local,
              retrievals |-> 1, used_local |-> FALSE, processed |-> FALSE]
        ELSE [outcome |-> Return(GoesScan_process(open_dataset(fetched.value))),
              local |-> local \cup {fetched.value},
              retrievals |-> 1, used_local |-> FALSE, processed |-> TRUE]

\* GoesScan._get: the outcome, the local directory afterwards, and what was done
GoesScan_get(self, local, remote) ==
    LET scan == GoesScan_check_local(self, local)
    IN  IF ~scan.found
        THEN LET fetched == download_scan(self.satellite, self.filepath,
                                          self.local_directory, remote)
             IN  IF Raises(fetched)
                 THEN [outcome |-> Raise(fetched.raised), local |-> local,
                       retrievals |-> 1, used_local |-> FALSE,
                       processed |-> FALSE]
                 ELSE [outcome |->
                           Return(GoesScan_process(open_dataset(fetched.value))),
                       local |-> local \cup {fetched.value},
                       retrievals |-> 1, used_local |-> FALSE,
                       processed |-> TRUE]
        ELSE [outcome |-> Return(GoesScan_process(scan.dataset)),
              local |-> local, retrievals |-> 0, used_local |-> TRUE,
              processed |-> TRUE]

\* GoesScan.__init__: parse the name, then load the dataset
GoesScan_init(filepath, local_directory, local, remote) ==
    LET parsed == parse_filepath(filepath)
    IN  IF Raises(parsed)
        THEN [outcome |-> Raise(parsed.raised), local |-> local,
              retrievals |-> 0, used_local |-> FALSE, processed |-> FALSE]
        ELSE LET self == [region |-> parsed.value.region,
                          channel |-> parsed.value.channel,
                          satellite |-> parsed.value.satellite,
                          started_at_utc |-> parsed.value.started_at_utc,
                          filepath |-> filepath,
                          local_directory |-> local_directory]
                 got == GoesScan_get(self, local, remote)
             IN  IF Raises(got.outcome)
                 THEN got
                 ELSE [got EXCEPT !.outcome =
                          Return([region |-> self.region,
                                  channel |-> self.channel,
                                  satellite |-> self.satellite,
                                  started_at_utc |-> self.started_at_utc,
                                  dataset |-> got.outcome.value])]

\* GoesScan.plot: which derived product the band is shown with
GoesScan_plot(self) ==
    IF self.channel \in 1..5
    THEN "reflectance_factor"
    ELSE "brightness_temperature"

(***************************************************************************)
(* Scan assembly (wildfire.data.goes_level_1, not in the shown source)     *)
(***************************************************************************)
\* The bands loaded so far and the local directory, after one more file:
\* GoesScan(filepath), unless an earlier file already raised.
LoadNext(acc, filepath, remote) ==
    IF Raises(acc.outcome)
    THEN acc
    ELSE CHOOSE r \in
            {[outcome |-> IF Raises(got.outcome)
                          THEN Raise(got.outcome.raised)
                          ELSE Return(Append(acc.outcome.value,
                                             got.outcome.value)),
              local |-> got.local] :
                got \in {GoesScan_init(filepath, LOCAL_DIRECTORY, acc.local,
                                       remote)}} : TRUE

RECURSIVE LoadBands(_, _, _, _)
\* One GoesScan per file, in order, for the first k files; the first
\* exception ends the loading.
LoadBands(local_filepaths, k, local, remote) ==
    IF k = 0
    THEN [outcome |-> Return(<<>>), local |-> local]
    ELSE CHOOSE r \in
            {LoadNext(acc, local_filepaths[k], remote) :
                acc \in {LoadBands(local_filepaths, k - 1, local, remote)}} : TRUE

\* A complete scan: 16 bands, one per channel, same satellite, region, time.
IsCompleteScan(bands) ==
    /\ Len(bands) = NumBands
    /\ {bands[k].channel : k \in DOMAIN bands} = Channels
    /\ \A j, k \in DOMAIN bands :
          /\ bands[j].satellite = bands[k].satellite
          /\ bands[j].region = bands[k].region
          /\ bands[j].started_at_utc = bands[k].started_at_utc

\* goes_level_1.scan.read_netcdfs: the assembled scan, ValueError for a
\* malformed group, or whatever loading a band raised.
read_netcdfs(local_filepaths, local, remote, content) ==
    CHOOSE r \in
      {IF Raises(loaded.outcome)
       THEN loaded
       ELSE IF ~IsCompleteScan(loaded.outcome.value)
       THEN [outcome |-> Raise("ValueError"), local |-> loaded.local]
       ELSE LET bands == loaded.outcome.value
            IN  [outcome |-> Return([scan_time_utc |-> bands[1].started_at_utc,
                                     region |-> bands[1].region,
                                     satellite |-> bands[1].satellite,
                                     bands |-> bands,
                                     pixels |-> content[bands[1].started_at_utc]]),
                 local |-> loaded.local] :
         loaded \in {LoadBands(local_filepaths, Len(local_filepaths), local,
                               remote)}} : TRUE

\* utilities.group_filepaths_into_scans: groups keyed by (satellite, region,
\* started_at_utc) parsed from each name, in order of first appearance.
GroupKey(parsed) == <<parsed.satellite, parsed.region, parsed.started_at_utc>>

\* the groups so far with one more path filed under its key
GroupNext(acc, path) ==
    IF Raises(acc)
    THEN acc
    ELSE LET parsed == parse_filepath(path)
             groups == acc.value
         IN  IF Raises(parsed)
             THEN Raise(parsed.raised)
             ELSE LET at == {g \in DOMAIN groups :
                               GroupKey(parse_filepath(groups[g][1]).value)
                                   = GroupKey(parsed.value)}
                  IN  IF at = {}
                      THEN Return(Append(groups, <<path>>))
                      ELSE Return([groups EXCEPT ![CHOOSE g \in at : TRUE] =
                                      Append(@, path)])

RECURSIVE GroupInto(_, _)
GroupInto(paths, k) ==
    IF k = 0
    THEN Return(<<>>)
    ELSE CHOOSE r \in {GroupNext(acc, paths[k]) :
                          acc \in {GroupInto(paths, k - 1)}} : TRUE

group_filepaths_into_scans(paths) == GroupInto(paths, Len(paths))

(***************************************************************************)
(* Threshold model (wildfire.models.threshold_model.model, not shown) and  *)
(* goes_level_1_wildfires.py                                               *)
(***************************************************************************)
\* A pixel of the rescaled scan, by the outcome of the four threshold tests
\* on its band values.
Pixel(hot, night, water, cloud) ==
    [hot |-> hot, night |-> night, water |-> water, cloud |-> cloud]

AllPixels == [hot : BOOLEAN, night : BOOLEAN, water : BOOLEAN, cloud : BOOLEAN]

\* threshold_model.predict, per pixel: hot and neither cloud nor water
predict(is_hot, is_cloud, is_night, is_water) ==
    [p \in DOMAIN is_hot |-> is_hot[p] /\ ~is_cloud[p] /\ ~is_water[p]]

\* get_model_features: the four boolean grids of the rescaled scan
get_model_features(goes_scan) ==
    LET rescaled_scan == goes_scan.pixels
    IN  [is_hot |-> [p \in DOMAIN rescaled_scan |-> rescaled_scan[p].hot],
         is_night |-> [p \in DOMAIN rescaled_scan |-> rescaled_scan[p].night],
         is_water |-> [p \in DOMAIN rescaled_scan |-> rescaled_scan[p].water],
         is_cloud |-> [p \in DOMAIN rescaled_scan |-> rescaled_scan[p].cloud]]

\* the cloud mask handed over in place of the hot mask, and the reverse
predict_wildfires_SwappedMasks(goes_scan) ==
    LET model_features == get_model_features(goes_scan)
    IN  predict(model_features.is_cloud, model_features.is_hot,
                model_features.is_night, model_features.is_water)

\* predict_wildfires
predict_wildfires(goes_scan) ==
    LET model_features == get_model_features(goes_scan)
    IN  predict(model_features.is_hot, model_features.is_cloud,
                model_features.is_night, model_features.is_water)

RECURSIVE SumTrue(_, _)
SumTrue(grid, k) ==
    IF k > Len(grid) THEN 0
    ELSE (IF grid[k] THEN 1 ELSE 0) + SumTrue(grid, k + 1)

\* every pixel positive, instead of at least one
MeanIsPositive_AllPixels(grid) ==
    Len(grid) > 0 /\ SumTrue(grid, 1) = Len(grid)

\* model_predictions.mean() > 0; the mean of an empty grid is NaN, and
\* NaN > 0 is False.  sum/size > 0 is compared as sum > 0 * size.
MeanIsPositive(grid) ==
    Len(grid) > 0 /\ SumTrue(grid, 1) > 0 * Len(grid)

PyNone == [is_none |-> TRUE, scan_time_utc |-> "", region |-> "", satellite |-> ""]

WildfireRecord(goes_scan) ==
    [is_none |-> FALSE,
     scan_time_utc |-> ScanTimeFormat(goes_scan.scan_time_utc),
     region |-> goes_scan.region,
     satellite |-> goes_scan.satellite]

NoPrediction == <<>>

\* parse_scan_for_wildfire: the outcome and the local directory afterwards;
\* `assembled` and `prediction` record what the call computed on the way.
parse_scan_for_wildfire(group, local, remote, content) ==
    CHOOSE r \in
      {IF read.outcome.raised = "ValueError"
       THEN [outcome |-> Return(PyNone), local |-> read.local,
             assembled |-> FALSE, prediction |-> NoPrediction]
       ELSE IF Raises(read.outcome)
       THEN [outcome |-> Raise(read.outcome.raised), local |-> read.local,
             assembled |-> FALSE, prediction |-> NoPrediction]
       ELSE LET goes_scan == read.outcome.value
                model_predictions == predict_wildfires(goes_scan)
            IN  [outcome |-> IF MeanIsPositive(model_predictions)
                             THEN Return(WildfireRecord(goes_scan))
                             ELSE Return(PyNone),
                 local |-> read.local,
                 assembled |-> TRUE,
                 prediction |-> model_predictions] :
         read \in {read_netcdfs(group, local, remote, content)}} : TRUE

\* filter(None, wildfires), with the kept records in reverse order
FilterNone_Reversed(values) ==
    LET RECURSIVE Walk(_)
        Walk(k) == IF k > Len(values) THEN <<>>
                   ELSE IF values[k].is_none THEN Walk(k + 1)
                   ELSE Append(Walk(k + 1), values[k])
    IN  Walk(1)

\* list(filter(None, wildfires)): the records, None dropped, order kept
FilterNone(values) ==
    LET RECURSIVE Walk(_)
        Walk(k) == IF k > Len(values) THEN <<>>
                   ELSE IF values[k].is_none THEN Walk(k + 1)
                   ELSE <<values[k]>> \o Walk(k + 1)
    IN  Walk(1)

\* persists whatever the batch found, also nothing
ShouldPersist_Always(found) == Len(found) >= 0

\* the test of label_wildfires before it writes: len(wildfires) > 0
ShouldPersist(found) == Len(found) > 0

\* WILDFIRE_FILENAME.format(...)
WILDFIRE_FILENAME(satellite, region, start, end, created) ==
    "wildfires_" \o satellite \o "_" \o region \o "_s" \o DATETIME_FORMAT(start)
    \o "_e" \o DATETIME_FORMAT(end) \o "_c" \o DATETIME_FORMAT(created) \o ".json"

\* os.path.join(persist_directory, name)
PathJoin(directory, name) == directory \o "/" \o name

\* enumerate counting from 1
Enumerate_FromOne(found) == [i \in 1..Len(found) |-> found[i]]

\* dict(enumerate(wildfires)): index from 0 -> record
Enumerate(found) == [i \in 0..(Len(found) - 1) |-> found[i + 1]]

\* json.dump of the mapping: integer keys are written as strings, a record as
\* an object with its three keys
JsonDump(mapping) ==
    [key \in {ToString(i) : i \in DOMAIN mapping} |->
        LET r == mapping[CHOOSE i \in DOMAIN mapping : ToString(i) = key]
        IN  [scan_time_utc |-> r.scan_time_utc, region |-> r.region,
             satellite |-> r.satellite]]

(***************************************************************************)
(* Inputs                                                                  *)
(***************************************************************************)
\* start time of the i-th scan of a batch
ScanTime(i) == Datetime(i, 275000 + i)

FailingKinds == {"missing_bands", "remote_absent", "bad_token"}
GroupKinds == {"complete", "duplicate_channel"} \cup FailingKinds

\* the file of channel c of scan i
BandFile(kind, i, c) ==
    Filepath("G17",
             IF kind = "bad_token" /\ c = 5 THEN "M3" ELSE "M1",
             IF kind = "duplicate_channel" /\ c = NumBands THEN 1 ELSE c,
             ScanTime(i))

\* the file group of scan i: 16 band files, or 13 when 3 are missing
MakeGroup(kind, i) ==
    [c \in 1..(IF kind = "missing_bands" THEN NumBands - 3 ELSE NumBands) |->
        BandFile(kind, i, c)]

LocalPathOf(f) == build_local_path(LOCAL_DIRECTORY, f, SatelliteName(f.sat))
RemoteObjectOf(f) == [bucket |-> SatelliteName(f.sat), key |-> f]

\* channels 1..8 are in the local directory already (all of them for a group
\* with missing bands); nothing of a group with an absent remote object is
CachedOf(kind, i) ==
    LET g == MakeGroup(kind, i)
    IN  {LocalPathOf(g[c]) : c \in {c \in DOMAIN g :
            /\ kind # "remote_absent"
            /\ (c <= 8 \/ kind = "missing_bands")}}

\* every file is in remote storage but channel 9 of a "remote_absent" group
RemoteOf(kind, i) ==
    LET g == MakeGroup(kind, i)
    IN  {RemoteObjectOf(g[c]) : c \in {c \in DOMAIN g :
            ~(kind = "remote_absent" /\ c = 9)}}

RECURSIVE Flatten(_, _)
Flatten(groups, k) ==
    IF k > Len(groups) THEN <<>> ELSE groups[k] \o Flatten(groups, k + 1)

Grids(alphabet, n) == UNION {[1..m -> alphabet] : m \in 0..n}

FirePixel == Pixel(TRUE, FALSE, FALSE, FALSE)
CloudPixel == Pixel(TRUE, FALSE, FALSE, TRUE)

\* raster contents used in batches
BatchGrids ==
    {<<>>, <<CloudPixel, CloudPixel>>, <<CloudPixel, FirePixel>>,
     <<FirePixel, CloudPixel>>}

BatchScans ==
    {[kind |-> "complete", pixels |-> g] : g \in BatchGrids}
    \cup {[kind |-> k, pixels |-> <<>>] : k \in FailingKinds}

Pending == [raised |-> "pending", value |-> <<>>]
NoFiles == [name \in {} |-> <<>>]

ScanIdle ==
    /\ scanInput = Filepath("", "", 0, Datetime(0, 0))
    /\ scanOut = [done |-> FALSE]
ParseIdle ==
    /\ parseInput = <<>>
    /\ parseOut = [done |-> FALSE]
BatchIdle ==
    /\ mode = "none"
    /\ filepaths = <<>>
    /\ scan_filepaths = <<>>
    /\ pc = "idle"
    /\ results = <<>>
    /\ wildfires = <<>>
    /\ error = NoError
    /\ persistDir = NoFiles
    /\ opens = 0
    /\ outOfOrder = FALSE

(***************************************************************************)
(* SpecScan: one GoesScan(filepath)                                        *)
(***************************************************************************)
InitScan ==
    /\ \E sat \in {"G17", "G99"}, c \in Channels :
          scanInput = Filepath(sat, "M1", c, ScanTime(1))
    /\ localFiles \in SUBSET {LocalPathOf(scanInput)}
    /\ remoteObjects \in SUBSET {RemoteObjectOf(scanInput)}
    /\ rasters = <<>>
    /\ scanOut = [done |-> FALSE]
    /\ ParseIdle
    /\ BatchIdle

Construct ==
    /\ ~scanOut.done
    /\ \E got \in {GoesScan_init(scanInput, LOCAL_DIRECTORY, localFiles,
                                  remoteObjects)} :
           /\ scanOut' = [done |-> TRUE,
                          existed |-> LocalPathOf(scanInput) \in localFiles,
                          outcome |-> got.outcome,
                          retrievals |-> got.retrievals,
                          used_local |-> got.used_local,
                          processed |-> got.processed]
           /\ localFiles' = got.local
    /\ UNCHANGED <<remoteObjects, rasters, scanInput, parseVars, batchVars>>

NextScan == Construct

SpecScan == InitScan /\ [][NextScan]_vars

(***************************************************************************)
(* SpecParse: one parse_scan_for_wildfire(filepaths)                       *)
(***************************************************************************)
InitParse ==
    /\ \E kind \in GroupKinds :
          /\ parseInput = MakeGroup(kind, 1)
          /\ localFiles = CachedOf(kind, 1)
          /\ remoteObjects = RemoteOf(kind, 1)
    /\ \E g \in Grids(AllPixels, MaxPixels) :
          rasters = [t \in {ScanTime(1)} |-> g]
    /\ parseOut = [done |-> FALSE]
    /\ ScanIdle
    /\ BatchIdle

ParseScan ==
    /\ ~parseOut.done
    /\ \E call \in {parse_scan_for_wildfire(parseInput, localFiles,
                                             remoteObjects, rasters)} :
           /\ parseOut' = [done |-> TRUE,
                           outcome |-> call.outcome,
                           assembled |-> call.assembled,
                           prediction |-> call.prediction]
           /\ localFiles' = call.local
    /\ UNCHANGED <<remoteObjects, rasters, parseInput, scanVars, batchVars>>

NextParse == ParseScan

SpecParse == InitParse /\ [][NextParse]_vars

(***************************************************************************)
(* Spec: a batch through find_wildfires or label_wildfires.                *)
(* multiprocessing.map_function (not in the shown source) runs one task    *)
(* per group on independent workers, in any order, and returns the task    *)
(* results in submission order; an exception of a task leaves the call.    *)
(***************************************************************************)
LabelSatellite == "noaa-goes17"
LabelRegion == "M1"
LabelStart == Datetime(0, 0)
LabelEnd == Datetime(59, 0)
\* datetime.datetime.utcnow() at the time of writing
Clock == {Datetime(1, 0), Datetime(2, 0)}

Init ==
    /\ \E n \in 0..MaxGroups : \E batch \in [1..n -> BatchScans] :
          /\ rasters = [t \in {ScanTime(i) : i \in 1..n} |->
                           batch[CHOOSE i \in 1..n : ScanTime(i) = t].pixels]
          /\ localFiles = UNION {CachedOf(batch[i].kind, i) : i \in 1..n}
          /\ remoteObjects = UNION {RemoteOf(batch[i].kind, i) : i \in 1..n}
          /\ \E m \in {"find", "label"} :
                /\ mode = m
                /\ filepaths =
                      IF m = "find"
                      THEN Flatten([i \in 1..n |-> MakeGroup(batch[i].kind, i)], 1)
                      ELSE <<>>
                /\ scan_filepaths =
                      IF m = "label"
                      THEN [i \in 1..n |-> MakeGroup(batch[i].kind, i)]
                      ELSE <<>>
    /\ pc = "start"
    /\ results = <<>>
    /\ wildfires = <<>>
    /\ error = NoError
    /\ persistDir = NoFiles
    /\ opens = 0
    /\ outOfOrder = FALSE
    /\ ScanIdle
    /\ ParseIdle

\* find_wildfires up to the map_function call: grouping, then submission
FindStart ==
    /\ mode = "find"
    /\ pc = "start"
    /\ \E grouped \in {group_filepaths_into_scans(filepaths)} :
          IF Raises(grouped)
          THEN /\ pc' = "raised"
               /\ error' = grouped.raised
               /\ UNCHANGED <<scan_filepaths, results>>
          ELSE /\ scan_filepaths' = grouped.value
               /\ results' = [i \in DOMAIN grouped.value |-> Pending]
               /\ pc' = "mapping"
               /\ UNCHANGED error
    /\ UNCHANGED <<fsVars, scanVars, parseVars, mode, filepaths, wildfires,
                   persistDir, opens, outOfOrder>>

\* label_wildfires up to the map_function call: the groups are the argument
LabelBegin ==
    /\ mode = "label"
    /\ pc = "start"
    /\ results' = [i \in DOMAIN scan_filepaths |-> Pending]
    /\ pc' = "mapping"
    /\ UNCHANGED <<fsVars, scanVars, parseVars, mode, filepaths, scan_filepaths,
                   wildfires, error, persistDir, opens, outOfOrder>>

\* one worker task: parse_scan_for_wildfire on group i
Task(i) ==
    /\ pc = "mapping"
    /\ results[i] = Pending
    /\ \E call \in {parse_scan_for_wildfire(scan_filepaths[i], localFiles,
                                             remoteObjects, rasters)} :
          /\ results' = [results EXCEPT ![i] = call.outcome]
          /\ localFiles' = call.local
    /\ outOfOrder' = (outOfOrder \/ \E j \in 1..(i - 1) : results[j] = Pending)
    /\ UNCHANGED <<remoteObjects, rasters, scanVars, parseVars, mode, filepaths,
                   scan_filepaths, pc, wildfires, error, persistDir, opens>>

AllReturned == \A i \in DOMAIN results : results[i].raised = NoError

TaskValues == [i \in DOMAIN results |-> results[i].value]

\* map_function re-raises the exception of a task in the caller
MapRaise ==
    /\ pc = "mapping"
    /\ \E i \in DOMAIN results :
          /\ results[i] # Pending
          /\ Raises(results[i])
          /\ error' = results[i].raised
    /\ pc' = "raised"
    /\ UNCHANGED <<fsVars, scanVars, parseVars, mode, filepaths, scan_filepaths,
                   results, wildfires, persistDir, opens, outOfOrder>>

\* find_wildfires after map_function returned: filter and return
FindReturn ==
    /\ mode = "find"
    /\ pc = "mapping"
    /\ AllReturned
    /\ wildfires' = FilterNone(TaskValues)
    /\ pc' = "done"
    /\ UNCHANGED <<fsVars, scanVars, parseVars, mode, filepaths, scan_filepaths,
                   results, error, persistDir, opens, outOfOrder>>

\* label_wildfires after map_function returned: filter, persist, return
LabelReturn ==
    /\ mode = "label"
    /\ pc = "mapping"
    /\ AllReturned
    /\ \E found \in {FilterNone(TaskValues)} :
          /\ IF ShouldPersist(found)
             THEN \E created \in Clock :
                    LET wildfires_filepath ==
                            PathJoin(PersistDirectory,
                                WILDFIRE_FILENAME(LabelSatellite, LabelRegion,
                                    LabelStart, LabelEnd, created))
                    IN  /\ persistDir' =
                              [name \in DOMAIN persistDir \cup {wildfires_filepath}
                                 |-> IF name = wildfires_filepath
                                     THEN JsonDump(Enumerate(found))
                                     ELSE persistDir[name]]
                        /\ opens' = opens + 1
             ELSE UNCHANGED <<persistDir, opens>>
          /\ wildfires' = found
    /\ pc' = "done"
    /\ UNCHANGED <<fsVars, scanVars, parseVars, mode, filepaths, scan_filepaths,
                   results, error, outOfOrder>>

Next ==
    \/ FindStart
    \/ LabelBegin
    \/ \E i \in DOMAIN results : Task(i)
    \/ MapRaise
    \/ FindReturn
    \/ LabelReturn

Spec == Init /\ [][Next]_vars

(***************************************************************************)
(* What the caller put into a batch, read off the inputs                   *)
(***************************************************************************)
Range(seq) == {seq[k] : k \in DOMAIN seq}

\* every file of the batch
InputFiles ==
    IF mode = "find"
    THEN Range(filepaths)
    ELSE UNION {Range(scan_filepaths[g]) : g \in DOMAIN scan_filepaths}

\* the groups of the batch, named by their scan start time
InputScans == DOMAIN rasters

FilesOf(t) == {f \in InputFiles : f.started = t}

\* position of group t in the caller's order
InputPos(t) ==
    IF mode = "find"
    THEN CHOOSE k \in DOMAIN filepaths :
            /\ filepaths[k].started = t
            /\ \A j \in 1..(k - 1) : filepaths[j].started # t
    ELSE CHOOSE g \in DOMAIN scan_filepaths : scan_filepaths[g][1].started = t


HasBadToken(t) ==
    \E f \in FilesOf(t) : f.sat \notin SatelliteTokens \/ f.region \notin RegionTokens

\* a file that is neither in the local directory nor in remote storage
RetrievalFails(t) ==
    \E f \in FilesOf(t) :
        /\ LocalPathOf(f) \notin localFiles
        /\ RemoteObjectOf(f) \notin remoteObjects

\* not one file per channel
Malformed(t) ==
    \/ {f.channel : f \in FilesOf(t)} # Channels
    \/ Cardinality(FilesOf(t)) # NumBands

FailsToAssemble(t) == HasBadToken(t) \/ RetrievalFails(t) \/ Malformed(t)

PositivePixel(px) == px.hot /\ ~px.cloud /\ ~px.water

TestsPositive(t) ==
    /\ ~FailsToAssemble(t)
    /\ \E p \in DOMAIN rasters[t] : PositivePixel(rasters[t][p])

\* the scan a record identifies
ScanOfRecord(r) == CHOOSE t \in InputScans : ScanTimeFormat(t) = r.scan_time_utc

\* the records of a returned sequence name the scans of `expected`, each once,
\* in the caller's order
ReturnsExactly(expected) ==
    /\ Len(wildfires) = Cardinality(expected)
    /\ \A k \in DOMAIN wildfires :
          /\ ~wildfires[k].is_none
          /\ \E t \in expected : ScanTimeFormat(t) = wildfires[k].scan_time_utc
    /\ \A a, b \in DOMAIN wildfires :
          a < b => InputPos(ScanOfRecord(wildfires[a]))
                     < InputPos(ScanOfRecord(wildfires[b]))

(***************************************************************************)
(* Claims                                                                  *)
(***************************************************************************)

\* C1: in every batch, a group that fails to assemble makes its task return
\* no record without raising, the batch runs to completion, and the records
\* returned are exactly those of the groups that assemble and test positive
\* (what the batch without the failing groups returns).
C1_FailureIsolation ==
    /\ \A i \in DOMAIN results :
          (results[i] # Pending /\ FailsToAssemble(scan_filepaths[i][1].started))
              => results[i] = Return(PyNone)
    /\ pc # "raised"
    /\ pc = "done" => ReturnsExactly({t \in InputScans : TestsPositive(t)})

\* Supporting check for C1: in a batch whose failing groups are all malformed
\* in the sense of one-file-per-channel (read_netcdfs raises ValueError), the
\* isolation holds.
C1_MalformedOnlyIsolated ==
    (\A t \in InputScans : ~HasBadToken(t) /\ ~RetrievalFails(t)) =>
        /\ \A i \in DOMAIN results :
              (results[i] # Pending /\ Malformed(scan_filepaths[i][1].started))
                  => results[i] = Return(PyNone)
        /\ pc # "raised"
        /\ pc = "done" => ReturnsExactly({t \in InputScans : TestsPositive(t)})

\* C2: whatever the completion order of the tasks, the returned sequence is
\* the subsequence of the caller's group order made of exactly the groups
\* that tested positive.
C2_OrderPreserved ==
    pc = "done" =>
        /\ {ScanOfRecord(wildfires[k]) : k \in DOMAIN wildfires}
               = {t \in InputScans : TestsPositive(t)}
        /\ Len(wildfires) = Cardinality({t \in InputScans : TestsPositive(t)})
        /\ \A k \in DOMAIN wildfires :
              ScanTimeFormat(ScanOfRecord(wildfires[k])) = wildfires[k].scan_time_utc
        /\ \A a, b \in DOMAIN wildfires :
              a < b => InputPos(ScanOfRecord(wildfires[a]))
                         < InputPos(ScanOfRecord(wildfires[b]))

\* tasks finished out of order, a negative group lies between two positive ones
C2_Witness ==
    /\ pc = "done"
    /\ outOfOrder
    /\ Len(results) = 3
    /\ Len(wildfires) = 2
    /\ results[2].value.is_none

\* C3: a group that assembles yields a record iff its final prediction grid
\* has at least one positive pixel, and the record carries the scan time,
\* region and satellite of that group.
C3_RecordIffPositivePixel ==
    (parseOut.done /\ parseOut.assembled) =>
        /\ parseOut.outcome.raised = NoError
        /\ ~parseOut.outcome.value.is_none
              <=> \E p \in DOMAIN parseOut.prediction : parseOut.prediction[p]
        /\ ~parseOut.outcome.value.is_none =>
              /\ parseOut.outcome.value.scan_time_utc = "2019-10-27T20:48:01275001"
              /\ parseOut.outcome.value.region = "M1"
              /\ parseOut.outcome.value.satellite = "noaa-goes17"

\* a record returned for a grid with one positive and one negative pixel
C3_Witness ==
    /\ parseOut.done
    /\ parseOut.assembled
    /\ Len(parseOut.prediction) = 2
    /\ parseOut.prediction[1] # parseOut.prediction[2]
    /\ ~parseOut.outcome.value.is_none

\* C4: a group with a failing retrieval yields no record (its task returns
\* None), and the retrieval failure does not end the batch.
C4_RetrievalFailureIsolated ==
    /\ \A i \in DOMAIN results :
          (results[i] # Pending /\ RetrievalFails(scan_filepaths[i][1].started))
              => results[i] = Return(PyNone)
    /\ error # "RetrievalError"

\* C5: in find_wildfires, an unsupported token in one file name costs only
\* the group of that file: the batch does not abort and returns the records
\* of the other groups.
C5_ConfigErrorIsolated ==
    (mode = "find" /\ \E t \in InputScans : HasBadToken(t)) =>
        /\ pc # "raised"
        /\ pc = "done" => ReturnsExactly({t \in InputScans : TestsPositive(t)})

\* C6: label_wildfires writes a file iff the batch found a wildfire: none
\* created or opened when the filtered sequence is empty, exactly one written
\* when it is not; the filtered sequence is what is returned.
C6_FileIffWildfire ==
    mode = "label" =>
        /\ pc # "done" => (DOMAIN persistDir = {} /\ opens = 0)
        /\ (pc = "done" /\ wildfires = <<>>) =>
              (DOMAIN persistDir = {} /\ opens = 0)
        /\ (pc = "done" /\ wildfires # <<>>) =>
              (Cardinality(DOMAIN persistDir) = 1 /\ opens = 1)
        /\ pc = "done" =>
              /\ Len(wildfires)
                    = Cardinality({i \in DOMAIN results : ~results[i].value.is_none})
              /\ \A k \in DOMAIN wildfires :
                    \E i \in DOMAIN results : results[i].value = wildfires[k]

\* a batch of at least two groups that found nothing and wrote nothing
C6_Witness ==
    /\ mode = "label"
    /\ pc = "done"
    /\ Len(results) >= 2
    /\ wildfires = <<>>
    /\ DOMAIN persistDir = {}

\* C7: loading a scan uses the file at the local path when it exists and never
\* invokes retrieval then; without such a file retrieval is invoked exactly
\* once; a loaded dataset went through the same processing in both cases.
C7_CacheBeforeRetrieval ==
    (scanOut.done /\ ~Raises(parse_filepath(scanInput))) =>
        /\ scanOut.existed => (scanOut.retrievals = 0 /\ scanOut.used_local)
        /\ ~scanOut.existed => (scanOut.retrievals = 1 /\ ~scanOut.used_local)
        /\ ~Raises(scanOut.outcome) =>
              /\ scanOut.processed
              /\ scanOut.outcome.value.dataset.path = LocalPathOf(scanInput)
              /\ scanOut.outcome.value.dataset.reflectance_factor.expr = "Rad*kappa0"
              /\ scanOut.outcome.value.dataset.brightness_temperature.populated

\* the local file is used although the remote object is gone
C7_Witness ==
    /\ scanOut.done
    /\ scanOut.existed
    /\ remoteObjects = {}
    /\ ~Raises(scanOut.outcome)
    /\ scanOut.retrievals = 0

C9_ExactlyOneDerivedField ==
    (scanOut.done /\ ~Raises(scanOut.outcome)) =>
        LET band == scanOut.outcome.value
        IN  /\ band.channel \in 1..6 =>
                  /\ band.dataset.reflectance_factor.populated
                  /\ ~band.dataset.brightness_temperature.populated
            /\ band.channel \in 7..NumBands =>
                  /\ band.dataset.brightness_temperature.populated
                  /\ ~band.dataset.reflectance_factor.populated

DecimalKey(i) == <<"0", "1", "2", "3", "4", "5", "6", "7", "8", "9">>[i + 1]

\* C10: a persisted batch of n >= 1 records has exactly the keys "0".."n-1",
\* and key i holds the i-th record of the returned sequence.
C10_PersistedMapping ==
    (mode = "label" /\ pc = "done") =>
        \A name \in DOMAIN persistDir :
            LET content == persistDir[name]
                n == Len(wildfires)
            IN  /\ n >= 1
                /\ DOMAIN content = {DecimalKey(i) : i \in 0..(n - 1)}
                /\ Cardinality(DOMAIN content) = n
                /\ \A i \in 0..(n - 1) :
                      /\ content[DecimalKey(i)].scan_time_utc
                            = wildfires[i + 1].scan_time_utc
                      /\ content[DecimalKey(i)].region = wildfires[i + 1].region
                      /\ content[DecimalKey(i)].satellite
                            = wildfires[i + 1].satellite

\* a file holding two records
C10_Witness ==
    /\ mode = "label"
    /\ pc = "done"
    /\ Len(wildfires) = 2
    /\ \E name \in DOMAIN persistDir : Cardinality(DOMAIN persistDir[name]) = 2

====
